---- MODULE Spec2Model ----
(***************************************************************************)
(* MetaTags plugin (obsidian-metatags): template metadata synchronisation. *)
(*                                                                         *)
(* The repository holds three revisions of the plugin; settings.variant    *)
(* names the one that runs:                                                *)
(*   - "old":  src/unnamed/part_000 lines 1-587, the first revision        *)
(*     (applyMetadataTemplate, mergeFrontmatter, syncNotesWithTemplate,    *)
(*     previousTemplateState, suppress flags);                             *)
(*   - "part": src/unnamed/part_000 lines 589-1298, the revision with the  *)
(*     templateFolderPath and deleteEmptyMetatagProperties settings;       *)
(*   - "main": src/main.ts, the revision whose template folder is the tag  *)
(*     base.                                                               *)
(* No markdown view is active (getActiveViewOfType returns null), so the   *)
(* handlers that work on the view's DOM return without writing.            *)
(*                                                                         *)
(* A document's text is its frontmatter (an ordered map, a sequence of     *)
(* key/value entries) and its body, of which the inline tags are kept.     *)
(* The host's metadata cache (idx) is a copy of the documents that the     *)
(* host refreshes after each write, one document at a time.                *)
(***************************************************************************)
EXTENDS Integers, Sequences, FiniteSets, TLC

VARIABLES
    settings,               \* plugin settings and the revision that runs
    disk,                   \* vault: document path -> [fm, inline]
    idx,                    \* metadataCache: document path -> [fm, inline]
    unindexed,              \* documents written since the host indexed them
    pending,                \* the debouncer's single slot: latest file, or NoFile
    fileTagCache,           \* fileTagCache: path -> tag list
    templateCache,          \* templateCache: path -> frontmatter (partial)
    previousTemplateState,  \* first revision: template name -> frontmatter (partial)
    suppressChange,         \* first revision: flag
    suppressTemplateChange, \* first revision: flag
    recentFiles,            \* first revision: recently processed paths
    tasks,                  \* first revision: applyMetadataTemplate calls in flight
    modified,               \* first revision: 'modify' handlers waiting in syncNotesWithTemplate
    edits,                  \* number of edits the document owner has made
    last,                   \* history: the last engine operation and what it saw
    origin,                 \* history, first revision: the vault before the owner's
                            \* last edit, and the templates reverted since
    notice,                 \* history: whose writes the waiting notification reports,
                            \* and the references that documents gained
    propagations,           \* handleTemplateMetadataChange calls between two writes
    codec,                  \* a document text on its way through the codec
    diff,                   \* two template property maps on their way through the diff
    bind                    \* a reference and the template files it may be bound to

vars == <<settings, disk, idx, unindexed, pending, fileTagCache, templateCache,
          previousTemplateState, suppressChange, suppressTemplateChange,
          recentFiles, tasks, modified, edits, last, origin, notice,
          propagations, codec, diff, bind>>

(***************************************************************************)
(* Bounds of the model.                                                    *)
(***************************************************************************)
\* edits of the owner in a run of the second revision or of main.ts
MaxEdits == 2

\* edits of the owner in a run of the first revision
MaxOldEdits == 1

(***************************************************************************)
(* The vault: paths, base names, folders, and the tags in use.             *)
(***************************************************************************)
tagBase == "mt"

\* Documents are named by their base name (file.basename); all are markdown.
Docs == {"Book", "Film", "n1", "n2"}

\* vault.getMarkdownFiles(): the host's scan order.
MarkdownFiles == <<"Book", "Film", "n1", "n2">>

Basename(d) == d

\* The folder of a document.  The first revision resolves a template as
\* `${templateName}.md`, at the vault root; the later ones in a folder, which
\* main.ts fixes to the tag base.
ParentPath(d) ==
    IF d \in {"Book", "Film"} /\ settings.variant # "old" THEN "mt" ELSE "/"

NoFile == "-"

SeqToSet(s) == {s[i] : i \in DOMAIN s}

\* Tags of the shape `${tagBase}/name` and the name each one carries
\* (tag.replace(`${tagBase}/`, "")).
MetaTagName == ("mt/Book" :> "Book") @@ ("mt/Film" :> "Film") @@ ("mt/Ghost" :> "Ghost")

Tags == {tagBase} \cup DOMAIN MetaTagName

IsMetaTag(tag) == tag \in DOMAIN MetaTagName

GetMetaTagName(tag) == MetaTagName[tag]

\* tags.includes(`${tagBase}/${name}`)
HasRefTag(tags, name) ==
    \E t \in SeqToSet(tags) : IsMetaTag(t) /\ GetMetaTagName(t) = name

(***************************************************************************)
(* Values of frontmatter entries: null, strings, booleans and tag lists.   *)
(***************************************************************************)
Null == [kind |-> "null", s |-> "", l |-> <<>>]

Str(x) == [kind |-> "str", s |-> x, l |-> <<>>]

Bool(b) == [kind |-> "bool", s |-> IF b THEN "true" ELSE "false", l |-> <<>>]

List(ts) == [kind |-> "list", s |-> "", l |-> ts]

\* noteValue === "" || noteValue == null
IsEmptyValue(v) == v = Str("") \/ v = Null

\* !value : JavaScript falsiness of the values above
IsFalsy(v) == v = Str("") \/ v = Null \/ v = Bool(FALSE)

(***************************************************************************)
(* Ordered maps (JavaScript objects): sequences of [k, v], keys unique.    *)
(***************************************************************************)
KeysOf(fm) == {fm[i].k : i \in DOMAIN fm}

Has(fm, k) == k \in KeysOf(fm)

Get(fm, k) == fm[CHOOSE i \in DOMAIN fm : fm[i].k = k].v

\* obj[k] = v : in place when the key exists, appended otherwise
Put(fm, k, v) ==
    IF Has(fm, k)
    THEN [i \in DOMAIN fm |-> IF fm[i].k = k THEN [k |-> k, v |-> v] ELSE fm[i]]
    ELSE Append(fm, [k |-> k, v |-> v])

\* delete obj[k]
Delete(fm, k) == SelectSeq(fm, LAMBDA e : e.k # k)

\* { ...a, ...b }
RECURSIVE Spread(_, _)
Spread(a, b) ==
    IF b = <<>> THEN a ELSE Spread(Put(a, Head(b).k, Head(b).v), Tail(b))

\* [...new Set(tags)] : first occurrences, in order
RECURSIVE Dedup(_)
Dedup(s) ==
    IF s = <<>> THEN <<>>
    ELSE LET r == Dedup(SubSeq(s, 1, Len(s) - 1))
             x == s[Len(s)]
         IN IF x \in SeqToSet(r) THEN r ELSE Append(r, x)

(***************************************************************************)
(* Tag Index (second revision and main.ts).                                *)
(***************************************************************************)
\* getAllTagsFromFrontmatter: scalar or list form of the block-declared tags
GetAllTagsFromFrontmatter(fm) ==
    IF ~Has(fm, "tags") THEN <<>>
    ELSE LET v == Get(fm, "tags")
         IN IF v.kind = "str" /\ v.s # "" THEN <<v.s>>
            ELSE IF v.kind = "list" THEN v.l
            ELSE <<>>

\* getAllTags: inline tags, then block-declared tags, duplicates removed
GetAllTags(fileCache) ==
    Dedup(fileCache.inline \o GetAllTagsFromFrontmatter(fileCache.fm))

\* getAddedTags / getRemovedTags
GetAddedTags(prevTags, currentTags) ==
    SelectSeq(currentTags, LAMBDA t : t \notin SeqToSet(prevTags))

GetRemovedTags(prevTags, currentTags) ==
    SelectSeq(prevTags, LAMBDA t : t \notin SeqToSet(currentTags))

\* addedTags.filter(startsWith(`${tagBase}/`)).map(replace(`${tagBase}/`, ""))
RECURSIVE MetaTagNames(_)
MetaTagNames(tags) ==
    IF tags = <<>> THEN <<>>
    ELSE IF IsMetaTag(Head(tags))
         THEN <<GetMetaTagName(Head(tags))>> \o MetaTagNames(Tail(tags))
         ELSE MetaTagNames(Tail(tags))

(***************************************************************************)
(* Template Registry.                                                      *)
(***************************************************************************)
\* isTemplateFile: by folder when one is configured (main.ts: the folder
\* named by the tag base), by the bare base tag otherwise
IsTemplateFile(d) ==
    IF settings.variant = "main"
    THEN ParentPath(d) = tagBase
    ELSE IF settings.templateFolderPath # ""
         THEN ParentPath(d) = settings.templateFolderPath
         ELSE tagBase \in SeqToSet(GetAllTagsFromFrontmatter(idx[d].fm))

\* getTemplateFileByName (main.ts: getAbstractFileByPath(`${tagBase}/${name}.md`))
GetTemplateFileByName(templateName) ==
    LET folder == IF settings.variant = "main" THEN tagBase
                  ELSE settings.templateFolderPath
        inFolder == {d \in Docs : ParentPath(d) = folder /\ Basename(d) = templateName}
        tagged == SelectSeq(MarkdownFiles, LAMBDA d :
                      /\ Basename(d) = templateName
                      /\ tagBase \in SeqToSet(GetAllTagsFromFrontmatter(idx[d].fm)))
    IN IF folder # ""
       THEN (IF inFolder = {} THEN NoFile ELSE CHOOSE d \in inFolder : TRUE)
       ELSE (IF tagged = <<>> THEN NoFile ELSE Head(tagged))

\* initializeTemplateCache: the files whose frontmatter is recorded at start
InitialTemplateFiles ==
    IF settings.variant = "main"
    THEN {d \in Docs : ParentPath(d) = tagBase}
    ELSE IF settings.templateFolderPath # ""
         THEN {d \in Docs : ParentPath(d) = settings.templateFolderPath}
         ELSE {d \in Docs : tagBase \in SeqToSet(GetAllTagsFromFrontmatter(idx[d].fm))}

\* const ignoreProps = ["tags", "mt"]
ignoreProps == {"tags", "mt"}

\* Object.keys(data).filter(prop => !ignoreProps.includes(prop)), in order
PropsOf(data) == SelectSeq([i \in DOMAIN data |-> data[i].k], LAMBDA k : k \notin ignoreProps)

\* currProps.filter(prop => !prevProps.includes(prop))
AddedProps(prevTemplateData, currTemplateData) ==
    SelectSeq(PropsOf(currTemplateData), LAMBDA k : k \notin SeqToSet(PropsOf(prevTemplateData)))

\* prevProps.filter(prop => !currProps.includes(prop))
RemovedProps(prevTemplateData, currTemplateData) ==
    SelectSeq(PropsOf(prevTemplateData), LAMBDA k : k \notin SeqToSet(PropsOf(currTemplateData)))

(***************************************************************************)
(* Synchronization Engine (second revision and main.ts).  Every operation  *)
(* takes the note's fields from the metadata cache and yields the          *)
(* frontmatter it hands to replaceFrontMatter and vault.modify.            *)
(***************************************************************************)
\* applyTemplateMetadata, the loop: mergedTemplateData = { ...mergedTemplateData, ...templateData }
RECURSIVE MergedTemplateData(_, _)
MergedTemplateData(acc, metaTagNames) ==
    IF metaTagNames = <<>> THEN acc
    ELSE LET templateFile == GetTemplateFileByName(Head(metaTagNames))
         IN MergedTemplateData(
                IF templateFile = NoFile THEN acc ELSE Spread(acc, idx[templateFile].fm),
                Tail(metaTagNames))

\* A faulty merge: the note's entries are appended and replace no entry
MergedDataConcat(mergedTemplateData, noteData) == mergedTemplateData \o noteData

\* applyTemplateMetadata: mergedData = { ...mergedTemplateData, ...noteData }
MergedData(mergedTemplateData, noteData) == Spread(mergedTemplateData, noteData)

\* applyTemplateMetadata: the frontmatter it writes
ApplyTemplateMetadata(file, metaTagNames) ==
    MergedData(MergedTemplateData(<<>>, metaTagNames), idx[file].fm)

\* syncTemplateToNote, added properties
RECURSIVE AddProps(_, _, _)
AddProps(newData, addedProps, currTemplateData) ==
    IF addedProps = <<>> THEN newData
    ELSE LET prop == Head(addedProps)
         IN AddProps(
                IF ~Has(newData, prop)
                THEN Put(newData, prop, Get(currTemplateData, prop))
                ELSE newData,
                Tail(addedProps), currTemplateData)

\* syncTemplateToNote, removed properties: newData[prop] === "" || newData[prop] == null
RemoveProps(newData, removedProps) ==
    SelectSeq(newData, LAMBDA e : ~(e.k \in SeqToSet(removedProps) /\ IsEmptyValue(e.v)))

\* syncTemplateToNote
SyncTemplateToNote(file, addedProps, removedProps, currTemplateData) ==
    RemoveProps(AddProps(idx[file].fm, addedProps, currTemplateData), removedProps)

\* removeEmptyTemplateProperties, the loop over the note's keys
PrunedData(noteData, templateData) ==
    SelectSeq(noteData, LAMBDA e :
        ~(/\ Has(templateData, e.k)
          /\ \/ IsEmptyValue(e.v)
             \/ Get(templateData, e.k).kind = "bool" /\ e.v = Get(templateData, e.k)))

\* removeEmptyTemplateProperties: the writes it makes (main.ts returns at once)
RemoveEmptyTemplateProperties(file, metaTagName) ==
    LET templateFile == GetTemplateFileByName(metaTagName)
    IN IF settings.variant = "main" \/ templateFile = NoFile THEN <<>>
       ELSE <<[kind |-> "prune", file |-> file,
               fm |-> PrunedData(idx[file].fm, disk[templateFile].fm)]>>

\* handleMetaTagAdded: the writes it makes
HandleMetaTagAdded(file, addedTags) ==
    IF MetaTagNames(addedTags) # <<>>
    THEN <<[kind |-> "apply", file |-> file,
            fm |-> ApplyTemplateMetadata(file, MetaTagNames(addedTags))]>>
    ELSE <<>>

\* A faulty handleMetaTagRemoved: the setting is not asked
PruningAlways == TRUE

\* handleMetaTagRemoved: if (this.settings.deleteEmptyMetatagProperties);
\* main.ts calls removeEmptyTemplateProperties without asking the setting
PruningEnabled ==
    settings.variant = "main" \/ settings.deleteEmptyMetatagProperties

\* handleMetaTagRemoved: the writes it makes, one tag after the other
RECURSIVE HandleMetaTagRemoved(_, _)
HandleMetaTagRemoved(file, removedTags) ==
    IF removedTags = <<>> THEN <<>>
    ELSE LET tag == Head(removedTags)
         IN (IF IsMetaTag(tag) /\ PruningEnabled
             THEN RemoveEmptyTemplateProperties(file, GetMetaTagName(tag))
             ELSE <<>>)
            \o HandleMetaTagRemoved(file, Tail(removedTags))

\* handleTemplateMetadataChange: the writes it makes, in getMarkdownFiles order
HandleTemplateMetadataChange(templateFile) ==
    LET prevTemplateData == IF templateFile \in DOMAIN templateCache
                            THEN templateCache[templateFile] ELSE <<>>
        currTemplateData == idx[templateFile].fm
        addedProps == AddedProps(prevTemplateData, currTemplateData)
        removedProps == RemovedProps(prevTemplateData, currTemplateData)
        bound == SelectSeq(MarkdownFiles, LAMBDA f :
                     HasRefTag(GetAllTags(idx[f]), Basename(templateFile)))
    IN [i \in DOMAIN bound |->
           [kind |-> "sync", file |-> bound[i],
            fm |-> SyncTemplateToNote(bound[i], addedProps, removedProps, currTemplateData)]]

\* vault.modify(file, replaceFrontMatter(content, data)) for each write, in order
RECURSIVE WriteAll(_, _)
WriteAll(d, writes) ==
    IF writes = <<>> THEN d
    ELSE WriteAll([d EXCEPT ![Head(writes).file].fm = Head(writes).fm], Tail(writes))

WrittenFiles(writes) == {writes[i].file : i \in DOMAIN writes}

(***************************************************************************)
(* First revision (part_000 lines 1-587): it reads a note's fields from    *)
(* the note's text and resolves a template as `${templateName}.md`.        *)
(***************************************************************************)
\* hasTagBase: Array.isArray(tags) && tags.includes(tagBase)
HasTagBase(fm) ==
    /\ Has(fm, "tags")
    /\ Get(fm, "tags").kind = "list"
    /\ tagBase \in SeqToSet(Get(fm, "tags").l)

\* getAbstractFileByPath(`${templateName}.md`) instanceof TFile
TemplateFileAtRoot(templateName) ==
    IF \E d \in Docs : Basename(d) = templateName /\ ParentPath(d) = "/"
    THEN CHOOSE d \in Docs : Basename(d) = templateName /\ ParentPath(d) = "/"
    ELSE NoFile

\* merged.tags.filter(tag => tag !== tagBase)
WithoutTagBase(tags) == SelectSeq(tags, LAMBDA t : t # tagBase)

\* mergeFrontmatter: { ...template, ...existing }, the base tag removed from a tag list
MergeFrontmatter(existing, template) ==
    LET merged == Spread(template, existing)
    IN IF Has(merged, "tags") /\ Get(merged, "tags").kind = "list"
       THEN Put(merged, "tags", List(WithoutTagBase(Get(merged, "tags").l)))
       ELSE merged

\* getDeletedProperties: the keys of oldTemplate that newTemplate lacks, in order
GetDeletedProperties(oldTemplate, newTemplate) ==
    SelectSeq([i \in DOMAIN oldTemplate |-> oldTemplate[i].k],
              LAMBDA k : ~Has(newTemplate, k))

\* syncNotesWithTemplate: existingFrontmatter.hasOwnProperty(prop) && !existingFrontmatter[prop]
WithoutDeleted(existingFrontmatter, deletedProperties) ==
    SelectSeq(existingFrontmatter, LAMBDA e :
        ~(e.k \in SeqToSet(deletedProperties) /\ IsFalsy(e.v)))

\* handleTagChange: the names of the tags that start with `${tagBase}/`
MatchingTemplateNames(fm) ==
    IF Has(fm, "tags") /\ Get(fm, "tags").kind = "list"
    THEN MetaTagNames(Get(fm, "tags").l)
    ELSE <<>>

\* metadata?.frontmatter?.tags?.includes(`${tagBase}/${templateName}`)
NotesWithMetaTag(templateName) ==
    SelectSeq(MarkdownFiles, LAMBDA f :
        /\ Has(idx[f].fm, "tags")
        /\ Get(idx[f].fm, "tags").kind = "list"
        /\ HasRefTag(Get(idx[f].fm, "tags").l, templateName))

\* syncNotesWithTemplate, the loop over the notes: the writes it makes
RECURSIVE SyncNotesWrites(_, _, _)
SyncNotesWrites(files, deletedProperties, newTemplateFrontmatter) ==
    IF files = <<>> THEN <<>>
    ELSE LET file == Head(files)
             existingFrontmatter == WithoutDeleted(disk[file].fm, deletedProperties)
             mergedFrontmatter == MergeFrontmatter(existingFrontmatter, newTemplateFrontmatter)
         IN (IF existingFrontmatter # mergedFrontmatter
             THEN <<[kind |-> "sync", file |-> file, fm |-> mergedFrontmatter]>>
             ELSE <<>>)
            \o SyncNotesWrites(Tail(files), deletedProperties, newTemplateFrontmatter)

\* initializeTemplateStates: the files whose text is recorded at start
InitialTemplateNames ==
    {Basename(d) : d \in {f \in Docs : HasTagBase(idx[f].fm)}}

(***************************************************************************)
(* The document owner and the host.                                        *)
(***************************************************************************)
PropKeys == {"rating", "author"}

\* The template and the note the owner edits, the values the owner gives
\* their properties, and the tags the owner sets on the note.
TemplateDoc == "Book"

NoteDoc == "n1"

TemplateValues == {Str(""), Str("5")}

NoteValues == {Str("9")}

EditTags == DOMAIN MetaTagName

NoOp == [op |-> "none", file |-> NoFile, pre |-> <<>>, prevTags |-> <<>>,
         prevTemplate |-> <<>>, known |-> FALSE, existing |-> <<>>,
         template |-> <<>>, writes |-> <<>>, own |-> FALSE]

\* the edit gives the document a reference `${tagBase}/name` it did not have
GainsReference(d, fm) ==
    MetaTagNames(GetAddedTags(GetAllTags(disk[d]),
                              GetAllTags([disk[d] EXCEPT !.fm = fm]))) # <<>>

\* the references <<document, name>> gained by an edit of the owner that the
\* document still holds once the owner has written fm to d
Gained(gained, d, fm) ==
    LET before == SeqToSet(MetaTagNames(GetAllTags(disk[d])))
        after == SeqToSet(MetaTagNames(GetAllTags([disk[d] EXCEPT !.fm = fm])))
    IN {g \in gained : g[1] # d \/ g[2] \in after}
          \cup {<<d, n>> : n \in after \ before}

\* vault.on("modify", ...) of the first revision, up to its first await: the
\* files among those written whose handler calls syncNotesWithTemplate
OnModify(written) ==
    IF settings.variant = "old"
    THEN {f \in written : HasTagBase(idx[f].fm)}
    ELSE {}

\* A write of the owner.
Edited(d, fm) ==
    /\ edits < (IF settings.variant = "old" THEN MaxOldEdits ELSE MaxEdits)
    /\ edits' = edits + 1
    /\ disk' = [disk EXCEPT ![d].fm = fm]
    /\ unindexed' = unindexed \cup {d}
    /\ modified' = modified \cup OnModify({d})
    /\ last' = NoOp
    /\ origin' = IF settings.variant = "old"
                 THEN [before |-> disk, declined |-> {}]
                 ELSE origin
    /\ notice' = [notice EXCEPT
                    !.byOwner = @ \cup {d},
                    !.gained = Gained(@, d, fm)]

\* The owner sets a property of a document.
UserSetProp(d, k, v) ==
    /\ ~(Has(disk[d].fm, k) /\ Get(disk[d].fm, k) = v)
    /\ Edited(d, Put(disk[d].fm, k, v))

\* The owner deletes a property of a document.
UserDropProp(d, k) ==
    /\ Has(disk[d].fm, k)
    /\ Edited(d, Delete(disk[d].fm, k))

\* The owner adds a tag to the block-declared tags of a document.
UserAddTag(d, t) ==
    LET tags == GetAllTagsFromFrontmatter(disk[d].fm)
    IN /\ t \notin SeqToSet(tags)
       /\ Edited(d, Put(disk[d].fm, "tags", List(Append(tags, t))))

\* The owner removes a tag from the block-declared tags of a document.
UserRemoveTag(d, t) ==
    LET tags == GetAllTagsFromFrontmatter(disk[d].fm)
    IN /\ t \in SeqToSet(tags)
       /\ Edited(d, Put(disk[d].fm, "tags", List(SelectSeq(tags, LAMBDA x : x # t))))

UserEdit ==
    \/ \E k \in PropKeys, v \in TemplateValues : UserSetProp(TemplateDoc, k, v)
    \/ \E k \in PropKeys : UserDropProp(TemplateDoc, k)
    \/ \E k \in PropKeys, v \in NoteValues : UserSetProp(NoteDoc, k, v)
    \/ \E t \in EditTags : UserAddTag(NoteDoc, t)
    \/ \E t \in EditTags : UserRemoveTag(NoteDoc, t)

\* The host indexes a written document and fires metadataCache 'changed';
\* the debouncer keeps the latest file only.
HostIndex(d) ==
    /\ d \in unindexed
    /\ idx' = [idx EXCEPT ![d] = disk[d]]
    /\ unindexed' = unindexed \ {d}
    /\ pending' = d
    /\ last' = NoOp
    /\ notice' = [notice EXCEPT !.own = d \notin notice.byOwner,
                                !.byOwner = @ \ {d}]

(***************************************************************************)
(* onMetadataChanged (second revision and main.ts), run when the           *)
(* debouncer's timer fires.                                                *)
(***************************************************************************)
OnMetadataChanged(file) ==
    LET isTemplate == IsTemplateFile(file)
        currentTags == GetAllTags(idx[file])
        prevTags == fileTagCache[file]
        addedTags == GetAddedTags(prevTags, currentTags)
        removedTags == GetRemovedTags(prevTags, currentTags)
        writes == IF isTemplate
                  THEN HandleTemplateMetadataChange(file)
                  ELSE HandleMetaTagAdded(file, addedTags)
                       \o HandleMetaTagRemoved(file, removedTags)
    IN /\ settings.variant # "old"
       /\ pending = file
       /\ pending' = NoFile
       /\ disk' = WriteAll(disk, writes)
       /\ unindexed' = unindexed \cup WrittenFiles(writes)
       /\ templateCache' = IF isTemplate
                           THEN [d \in DOMAIN templateCache \cup {file} |->
                                    IF d = file THEN idx[file].fm ELSE templateCache[d]]
                           ELSE templateCache
       /\ fileTagCache' = IF isTemplate THEN fileTagCache
                          ELSE [fileTagCache EXCEPT ![file] = currentTags]
       /\ last' = [NoOp EXCEPT
                     !.op = IF isTemplate THEN "template" ELSE "note",
                     !.file = file, !.pre = disk, !.prevTags = prevTags,
                     !.prevTemplate = IF file \in DOMAIN templateCache
                                      THEN templateCache[file] ELSE <<>>,
                     !.known = file \in DOMAIN templateCache,
                     !.writes = writes, !.own = notice.own]
       /\ notice' = [notice EXCEPT !.own = FALSE]

(***************************************************************************)
(* First revision: the debounced 'changed' handler, handleTagChange and    *)
(* the applyMetadataTemplate calls it starts without awaiting them.        *)
(***************************************************************************)
MaxTasks == 2

Task(file, templateName) ==
    [file |-> file, templateName |-> templateName, stage |-> "readTemplate",
     template |-> <<>>, existing |-> <<>>, updated |-> <<>>, own |-> notice.own]

\* handleTagChange: one applyMetadataTemplate call per matching tag whose
\* template file exists; each runs up to its first await
HandleTagChange(file) ==
    {Task(file, n) : n \in {m \in SeqToSet(MatchingTemplateNames(idx[file].fm)) :
                               TemplateFileAtRoot(m) # NoFile}}

\* debounce((file) => { ... this.handleTagChange(file) }, 500)
OnChangedDebounced(file) ==
    LET admitted == ~suppressChange /\ file \notin recentFiles
    IN /\ settings.variant = "old"
       /\ pending = file
       /\ pending' = NoFile
       /\ Cardinality(tasks \cup HandleTagChange(file)) <= MaxTasks
       /\ recentFiles' = IF admitted THEN recentFiles \cup {file} ELSE recentFiles
       /\ tasks' = IF admitted THEN tasks \cup HandleTagChange(file) ELSE tasks
       /\ last' = NoOp
       /\ notice' = [notice EXCEPT !.own = FALSE]
       /\ UNCHANGED <<disk, unindexed, modified, suppressChange,
                      suppressTemplateChange, previousTemplateState>>

\* setTimeout(() => this.recentFiles.delete(file.path), 2000)
RecentExpire(file) ==
    /\ file \in recentFiles
    /\ recentFiles' = recentFiles \ {file}
    /\ last' = NoOp
    /\ UNCHANGED <<disk, unindexed, modified, pending, tasks, suppressChange,
                   suppressTemplateChange, previousTemplateState>>

\* applyMetadataTemplate: await vault.read(templateFile)
ApplyReadTemplate(t) ==
    /\ t \in tasks /\ t.stage = "readTemplate"
    /\ tasks' = (tasks \ {t}) \cup
          {[t EXCEPT !.stage = "readFile",
                     !.template = disk[TemplateFileAtRoot(t.templateName)].fm]}
    /\ last' = NoOp
    /\ UNCHANGED <<disk, unindexed, modified, pending, recentFiles, suppressChange,
                   suppressTemplateChange, previousTemplateState>>

\* applyMetadataTemplate: await vault.read(file), the merge, the comparison,
\* and the call of vault.modify with the flag set
ApplyReadFile(t) ==
    LET existingFrontmatter == disk[t.file].fm
        mergedFrontmatter == MergeFrontmatter(existingFrontmatter, t.template)
        identical == existingFrontmatter = mergedFrontmatter
    IN /\ t \in tasks /\ t.stage = "readFile"
       /\ tasks' = (tasks \ {t}) \cup
             (IF identical THEN {}
              ELSE {[t EXCEPT !.stage = "modify", !.existing = existingFrontmatter,
                              !.updated = mergedFrontmatter]})
       /\ suppressChange' = IF identical THEN suppressChange ELSE TRUE
       /\ last' = IF identical
                  THEN [NoOp EXCEPT !.op = "applySkipped", !.file = t.file, !.pre = disk,
                                    !.existing = existingFrontmatter,
                                    !.template = t.template]
                  ELSE NoOp
       /\ UNCHANGED <<disk, unindexed, modified, pending, recentFiles,
                      suppressTemplateChange, previousTemplateState>>

\* applyMetadataTemplate: the write of vault.modify reaches the vault
ApplyModify(t) ==
    /\ t \in tasks /\ t.stage = "modify"
    /\ disk' = [disk EXCEPT ![t.file].fm = t.updated]
    /\ unindexed' = unindexed \cup {t.file}
    /\ modified' = modified \cup OnModify({t.file})
    /\ tasks' = (tasks \ {t}) \cup {[t EXCEPT !.stage = "finally"]}
    /\ last' = [NoOp EXCEPT !.op = "applied", !.file = t.file, !.pre = disk,
                            !.existing = t.existing, !.template = t.template,
                            !.writes = <<[kind |-> "apply", file |-> t.file,
                                          fm |-> t.updated]>>,
                            !.own = t.own]
    /\ UNCHANGED <<pending, recentFiles, suppressChange, suppressTemplateChange,
                   previousTemplateState>>

\* applyMetadataTemplate: finally { this.suppressChange = false }
ApplyFinally(t) ==
    /\ t \in tasks /\ t.stage = "finally"
    /\ tasks' = tasks \ {t}
    /\ suppressChange' = FALSE
    /\ last' = NoOp
    /\ UNCHANGED <<disk, unindexed, modified, pending, recentFiles,
                   suppressTemplateChange, previousTemplateState>>

(***************************************************************************)
(* First revision: the vault 'modify' handler and syncNotesWithTemplate.   *)
(* window.confirm blocks, so the whole call is one step; `confirmed` is    *)
(* the owner's answer.                                                     *)
(***************************************************************************)
\* this.previousTemplateState[templateName] || {}
PreviousFrontmatter(templateName) ==
    IF templateName \in DOMAIN previousTemplateState
    THEN previousTemplateState[templateName] ELSE <<>>

\* syncNotesWithTemplate: the confirmation is asked and refused
Declined(templateName, confirmed) ==
    /\ GetDeletedProperties(PreviousFrontmatter(templateName),
                            disk[TemplateFileAtRoot(templateName)].fm) # <<>>
    /\ ~confirmed

\* syncNotesWithTemplate: the writes it makes
SyncNotesWithTemplateWrites(templateName, confirmed) ==
    LET templateFile == TemplateFileAtRoot(templateName)
        previousFrontmatter == PreviousFrontmatter(templateName)
        newTemplateFrontmatter == disk[templateFile].fm
        deletedProperties == GetDeletedProperties(previousFrontmatter, newTemplateFrontmatter)
    IN IF Declined(templateName, confirmed)
       THEN <<[kind |-> "revert", file |-> templateFile, fm |-> previousFrontmatter]>>
       ELSE SyncNotesWrites(NotesWithMetaTag(templateName), deletedProperties,
                            newTemplateFrontmatter)

\* A faulty syncNotesWithTemplate: the snapshot is taken before the confirmation
SyncNotesWithTemplateStateEarly(templateName, confirmed) ==
    [n \in DOMAIN previousTemplateState \cup {templateName} |->
        IF n = templateName THEN disk[TemplateFileAtRoot(templateName)].fm
        ELSE previousTemplateState[n]]

\* syncNotesWithTemplate: previousTemplateState after the call
SyncNotesWithTemplateState(templateName, confirmed) ==
    IF Declined(templateName, confirmed)
    THEN previousTemplateState
    ELSE [n \in DOMAIN previousTemplateState \cup {templateName} |->
             IF n = templateName THEN disk[TemplateFileAtRoot(templateName)].fm
             ELSE previousTemplateState[n]]

SyncNotesWithTemplate(templateName, confirmed) ==
    LET writes == SyncNotesWithTemplateWrites(templateName, confirmed)
        declined == Declined(templateName, confirmed)
    IN /\ disk' = WriteAll(disk, writes)
       /\ unindexed' = unindexed \cup WrittenFiles(writes)
       /\ modified' = (modified \ {TemplateFileAtRoot(templateName)})
                         \cup OnModify(WrittenFiles(writes))
       /\ previousTemplateState' = SyncNotesWithTemplateState(templateName, confirmed)
       /\ suppressChange' = IF ~declined /\ writes # <<>> THEN FALSE ELSE suppressChange
       /\ suppressTemplateChange' = IF declined THEN FALSE ELSE suppressTemplateChange
       /\ last' = [NoOp EXCEPT
                     !.op = IF declined THEN "declined" ELSE "synced",
                     !.file = TemplateFileAtRoot(templateName), !.pre = disk,
                     !.prevTemplate = PreviousFrontmatter(templateName),
                     !.known = templateName \in DOMAIN previousTemplateState,
                     !.template = disk[TemplateFileAtRoot(templateName)].fm,
                     !.writes = writes]
       /\ origin' = IF declined
                    THEN [origin EXCEPT !.declined = @ \cup {TemplateFileAtRoot(templateName)}]
                    ELSE origin

\* vault.on("modify", ...): await this.syncNotesWithTemplate(file.basename)
OnModifySync(file) ==
    /\ file \in modified
    /\ \E confirmed \in BOOLEAN : SyncNotesWithTemplate(Basename(file), confirmed)
    /\ UNCHANGED <<pending, recentFiles, tasks>>

(***************************************************************************)
(* Start: the vault as the plugin finds it, and onLayoutReady.             *)
(***************************************************************************)
Entry(k, v) == [k |-> k, v |-> v]

\* no text is on its way through the codec
NoCodec == [stage |-> "none"]

\* no property maps are on their way through the diff
NoDiff == [stage |-> "none"]

\* no reference is being bound
NoBind == [stage |-> "none"]

TemplateTags == <<Entry("tags", List(<<tagBase>>))>>

InitBook == {TemplateTags \o p : p \in {
    <<Entry("rating", Str("")), Entry("author", Str("5"))>>,
    <<Entry("rating", Bool(FALSE))>>}}

InitFilm == {TemplateTags \o p : p \in {
    <<Entry("author", Null), Entry("rating", Str("5"))>>}}

\* The first revision reads the tags of the block only, and takes a document
\* that carries the base tag for a template.
InitNote1 ==
    IF settings.variant = "old"
    THEN {<<Entry("tags", List(<<"mt/Book">>)), Entry("rating", Str(""))>>,
          <<Entry("tags", List(<<"mt/Book">>)), Entry("rating", Bool(FALSE))>>,
          <<Entry("tags", List(<<tagBase>>)), Entry("author", Null),
            Entry("rating", Str("7"))>>,
          <<Entry("tags", List(<<"mt/Book", "mt/Film">>))>>}
    ELSE {t \o p :
            t \in {<<>>, <<Entry("tags", List(<<"mt/Book">>))>>,
                   <<Entry("tags", List(<<"mt/Book", "mt/Film">>))>>},
            p \in {<<>>, <<Entry("rating", Str(""))>>, <<Entry("rating", Bool(FALSE))>>,
                   <<Entry("author", Null), Entry("rating", Str("7"))>>}}

\* The first revision reads block-declared tags only.
InitNote2 ==
    IF settings.variant = "old"
    THEN {[fm |-> <<Entry("tags", List(<<"mt/Book">>)), Entry("rating", Null)>>,
           inline |-> <<>>]}
    ELSE {[fm |-> <<Entry("rating", Null)>>, inline |-> <<"mt/Book">>]}

InitSettings ==
    {[variant |-> "part", templateFolderPath |-> f, deleteEmptyMetatagProperties |-> b] :
        f \in {"", "mt"}, b \in BOOLEAN}
    \cup {[variant |-> v, templateFolderPath |-> "", deleteEmptyMetatagProperties |-> FALSE] :
        v \in {"main", "old"}}

\* the host has indexed every document and no notification is waiting
InitHost ==
    /\ idx = disk
    /\ unindexed = {}
    /\ modified = {}
    /\ pending = NoFile
    /\ edits = 0
    /\ last = NoOp
    /\ origin = [before |-> disk, declined |-> {}]
    /\ notice = [byOwner |-> {}, own |-> FALSE, gained |-> {}]

InitVault ==
    /\ \E b \in InitBook, f \in InitFilm, n1 \in InitNote1, n2 \in InitNote2 :
          disk = [d \in Docs |->
                     CASE d = "Book" -> [fm |-> b, inline |-> <<>>]
                       [] d = "Film" -> [fm |-> f, inline |-> <<>>]
                       [] d = "n1" -> [fm |-> n1, inline |-> <<>>]
                       [] d = "n2" -> n2]
    /\ InitHost

\* initializeFileTagCache, initializeTemplateCache; nothing is in flight
InitCaches ==
    /\ fileTagCache = [d \in Docs |->
                          IF settings.variant = "old" THEN <<>> ELSE GetAllTags(idx[d])]
    /\ templateCache =
          [d \in (IF settings.variant = "old" THEN {} ELSE InitialTemplateFiles) |->
              idx[d].fm]
    /\ previousTemplateState =
          [n \in (IF settings.variant = "old" THEN InitialTemplateNames ELSE {}) |->
              disk[TemplateFileAtRoot(n)].fm]
    /\ suppressChange = FALSE
    /\ suppressTemplateChange = FALSE
    /\ recentFiles = {}
    /\ tasks = {}
    /\ propagations = {}

InitPlugin ==
    /\ settings \in InitSettings
    /\ InitVault
    /\ InitCaches

Init == InitPlugin /\ codec = NoCodec /\ diff = NoDiff /\ bind = NoBind

oldVars == <<previousTemplateState, suppressChange, suppressTemplateChange,
             recentFiles, tasks>>

newVars == <<fileTagCache, templateCache>>

ioVars == <<propagations, codec, diff, bind>>

Next ==
    \/ UserEdit /\ UNCHANGED <<settings, idx, pending, newVars, oldVars, ioVars>>
    \/ \E d \in Docs : HostIndex(d)
          /\ UNCHANGED <<settings, disk, modified, edits, origin, newVars, oldVars, ioVars>>
    \/ \E d \in Docs : OnMetadataChanged(d)
          /\ UNCHANGED <<settings, idx, modified, edits, origin, oldVars, ioVars>>
    \/ \E d \in Docs : OnChangedDebounced(d)
          /\ UNCHANGED <<settings, idx, edits, origin, newVars, ioVars>>
    \/ \E d \in Docs : RecentExpire(d)
          /\ UNCHANGED <<settings, idx, edits, origin, notice, newVars, ioVars>>
    \/ \E t \in tasks : ApplyReadTemplate(t)
          /\ UNCHANGED <<settings, idx, edits, origin, notice, newVars, ioVars>>
    \/ \E t \in tasks : ApplyReadFile(t)
          /\ UNCHANGED <<settings, idx, edits, origin, notice, newVars, ioVars>>
    \/ \E t \in tasks : ApplyModify(t)
          /\ UNCHANGED <<settings, idx, edits, origin, notice, newVars, ioVars>>
    \/ \E t \in tasks : ApplyFinally(t)
          /\ UNCHANGED <<settings, idx, edits, origin, notice, newVars, ioVars>>
    \/ \E d \in Docs : OnModifySync(d)
          /\ UNCHANGED <<settings, idx, edits, notice, newVars, ioVars>>

Spec == Init /\ [][Next]_vars

\* The steps of the host and of the plugin, each taken when it stays possible:
\* the host indexes every written document and delivers its notification,
\* every timer fires, and every awaited read or write ends.
HostIndexes ==
    \E d \in Docs : HostIndex(d)
       /\ UNCHANGED <<settings, disk, modified, edits, origin, newVars, oldVars, ioVars>>

\* the debouncer's timer fires and the handler takes the file out of the slot
\* (onMetadataChanged, or the first revision's debounced handler)
TimerFires == pending # NoFile /\ pending' = NoFile

RecentExpires ==
    \E d \in Docs : RecentExpire(d)
       /\ UNCHANGED <<settings, idx, edits, origin, notice, newVars, ioVars>>

TemplateReadEnds ==
    \E t \in tasks : ApplyReadTemplate(t)
       /\ UNCHANGED <<settings, idx, edits, origin, notice, newVars, ioVars>>

FileReadEnds ==
    \E t \in tasks : ApplyReadFile(t)
       /\ UNCHANGED <<settings, idx, edits, origin, notice, newVars, ioVars>>

ModifyEnds ==
    \E t \in tasks : ApplyModify(t)
       /\ UNCHANGED <<settings, idx, edits, origin, notice, newVars, ioVars>>

FinallyRuns ==
    \E t \in tasks : ApplyFinally(t)
       /\ UNCHANGED <<settings, idx, edits, origin, notice, newVars, ioVars>>

ModifyHandlerRuns ==
    \E d \in Docs : OnModifySync(d)
       /\ UNCHANGED <<settings, idx, edits, notice, newVars, ioVars>>

\* The vaults of the fair runs: the note n1 starts with no field, or with a
\* reference to Book and an empty rating.
InitFair ==
    /\ Init
    /\ settings.variant = "part" =>
          (settings.templateFolderPath = "" /\ settings.deleteEmptyMetatagProperties)
    /\ disk[TemplateDoc].fm = TemplateTags \o
          <<Entry("rating", Str("")), Entry("author", Str("5"))>>
    /\ disk[NoteDoc].fm \in
          {<<>>, <<Entry("tags", List(<<"mt/Book">>)), Entry("rating", Str(""))>>}

FairSpec ==
    /\ InitFair
    /\ [][Next]_vars
    /\ WF_vars(HostIndexes)
    /\ WF_pending(TimerFires)
    /\ WF_vars(RecentExpires)
    /\ WF_vars(TemplateReadEnds)
    /\ WF_vars(FileReadEnds)
    /\ WF_vars(ModifyEnds)
    /\ WF_vars(FinallyRuns)
    /\ WF_vars(ModifyHandlerRuns)

(***************************************************************************)
(* The same program seen between the writes of a propagation, with a host  *)
(* whose writes may fail.  handleTemplateMetadataChange awaits each         *)
(* syncTemplateToNote: between two of its writes the owner, the host and   *)
(* other passes take their steps.  A vault.modify that rejects throws out  *)
(* of the function that awaited it.                                        *)
(***************************************************************************)
MaxPropagations == 2

\* the files that come after f in the scan order
After(files, f) ==
    LET i == CHOOSE j \in DOMAIN files : files[j] = f
    IN SubSeq(files, i + 1, Len(files))

\* handleTemplateMetadataChange, the loop up to its next await: the next
\* bound document among `files` and the fields syncTemplateToNote computes
\* for it from the metadata cache; no write when the loop ends
NextSync(templateFile, files, addedProps, removedProps, currTemplateData) ==
    LET bound == SelectSeq(files, LAMBDA f :
                     HasRefTag(GetAllTags(idx[f]), Basename(templateFile)))
    IN IF bound = <<>> THEN <<>>
       ELSE <<[kind |-> "sync", file |-> bound[1],
               fm |-> SyncTemplateToNote(bound[1], addedProps, removedProps,
                                         currTemplateData)]>>

\* onMetadataChanged of a template: handleTemplateMetadataChange is called and
\* not awaited; it sets templateCache and runs up to its first await
HandleTemplateMetadataChangeStart(templateFile) ==
    LET prevTemplateData == IF templateFile \in DOMAIN templateCache
                            THEN templateCache[templateFile] ELSE <<>>
        currTemplateData == idx[templateFile].fm
        addedProps == AddedProps(prevTemplateData, currTemplateData)
        removedProps == RemovedProps(prevTemplateData, currTemplateData)
        write == NextSync(templateFile, MarkdownFiles, addedProps, removedProps,
                          currTemplateData)
        p == [file |-> templateFile, prev |-> prevTemplateData,
              known |-> templateFile \in DOMAIN templateCache,
              curr |-> currTemplateData, addedProps |-> addedProps,
              removedProps |-> removedProps, write |-> write,
              rest |-> IF write = <<>> THEN <<>>
                       ELSE After(MarkdownFiles, write[1].file)]
    IN /\ settings.variant # "old"
       /\ pending = templateFile
       /\ IsTemplateFile(templateFile)
       /\ Cardinality(propagations \cup {p}) <= MaxPropagations
       /\ pending' = NoFile
       /\ templateCache' = [d \in DOMAIN templateCache \cup {templateFile} |->
                               IF d = templateFile THEN currTemplateData
                               ELSE templateCache[d]]
       /\ propagations' = IF write = <<>> THEN propagations
                          ELSE propagations \cup {p}
       /\ last' = [NoOp EXCEPT !.op = "propagating", !.file = templateFile,
                               !.prevTemplate = prevTemplateData,
                               !.known = templateFile \in DOMAIN templateCache,
                               !.own = notice.own]
       /\ notice' = [notice EXCEPT !.own = FALSE]
       /\ UNCHANGED <<disk, unindexed, fileTagCache>>

\* syncTemplateToNote: its vault.modify resolves, and the loop runs on to the
\* next bound document
SyncTemplateToNoteWrite(p) ==
    LET w == p.write[1]
        write == NextSync(p.file, p.rest, p.addedProps, p.removedProps, p.curr)
    IN /\ p \in propagations
       /\ disk' = [disk EXCEPT ![w.file].fm = w.fm]
       /\ unindexed' = unindexed \cup {w.file}
       /\ propagations' = (propagations \ {p}) \cup
             (IF write = <<>> THEN {}
              ELSE {[p EXCEPT !.write = write,
                              !.rest = After(p.rest, write[1].file)]})
       /\ last' = [NoOp EXCEPT !.op = "syncWrite", !.file = p.file, !.pre = disk,
                               !.prevTemplate = p.prev, !.known = p.known,
                               !.writes = p.write]
       /\ UNCHANGED <<pending, fileTagCache, templateCache, notice>>

\* syncTemplateToNote: its vault.modify rejects; the rejection ends
\* handleTemplateMetadataChange, which nobody awaits
SyncTemplateToNoteFails(p) ==
    /\ p \in propagations
    /\ propagations' = propagations \ {p}
    /\ last' = [NoOp EXCEPT !.op = "syncFailed", !.file = p.file, !.pre = disk,
                            !.prevTemplate = p.prev, !.known = p.known,
                            !.template = p.curr, !.writes = p.write]
    /\ UNCHANGED <<disk, unindexed, pending, fileTagCache, templateCache, notice>>

\* onMetadataChanged of a document that is no template, as in Spec
OnMetadataChangedNote(file) ==
    /\ ~IsTemplateFile(file)
    /\ OnMetadataChanged(file)

\* onMetadataChanged of a document that is no template, when the i-th
\* vault.modify of the pass rejects: the writes before it are made, and the
\* rejection leaves onMetadataChanged before fileTagCache.set
OnMetadataChangedNoteFails(file) ==
    LET currentTags == GetAllTags(idx[file])
        prevTags == fileTagCache[file]
        writes == HandleMetaTagAdded(file, GetAddedTags(prevTags, currentTags))
                  \o HandleMetaTagRemoved(file, GetRemovedTags(prevTags, currentTags))
    IN /\ settings.variant # "old"
       /\ pending = file
       /\ ~IsTemplateFile(file)
       /\ \E i \in DOMAIN writes :
             /\ disk' = WriteAll(disk, SubSeq(writes, 1, i - 1))
             /\ unindexed' = unindexed \cup WrittenFiles(SubSeq(writes, 1, i - 1))
             /\ last' = [NoOp EXCEPT !.op = "noteFailed", !.file = file, !.pre = disk,
                                     !.prevTags = prevTags,
                                     !.writes = SubSeq(writes, 1, i - 1)]
       /\ pending' = NoFile
       /\ notice' = [notice EXCEPT !.own = FALSE]
       /\ UNCHANGED <<fileTagCache, templateCache>>

\* applyMetadataTemplate: vault.modify rejects; the finally block still runs
ApplyModifyFails(t) ==
    /\ t \in tasks /\ t.stage = "modify"
    /\ tasks' = (tasks \ {t}) \cup {[t EXCEPT !.stage = "finally"]}
    /\ last' = [NoOp EXCEPT !.op = "applyFailed", !.file = t.file, !.pre = disk,
                            !.existing = t.existing, !.template = t.template]
    /\ UNCHANGED <<disk, unindexed, modified, pending, recentFiles, suppressChange,
                   suppressTemplateChange, previousTemplateState>>

\* syncNotesWithTemplate when its i-th vault.modify rejects: the statement
\* after the await is not reached
SyncNotesWithTemplateFails(templateName, confirmed) ==
    LET writes == SyncNotesWithTemplateWrites(templateName, confirmed)
        declined == Declined(templateName, confirmed)
    IN \E i \in DOMAIN writes :
          /\ disk' = WriteAll(disk, SubSeq(writes, 1, i - 1))
          /\ unindexed' = unindexed \cup WrittenFiles(SubSeq(writes, 1, i - 1))
          /\ modified' = (modified \ {TemplateFileAtRoot(templateName)})
                            \cup OnModify(WrittenFiles(SubSeq(writes, 1, i - 1)))
          /\ previousTemplateState' = SyncNotesWithTemplateState(templateName, confirmed)
          /\ suppressChange' = IF declined THEN suppressChange ELSE TRUE
          /\ suppressTemplateChange' = IF declined THEN TRUE ELSE suppressTemplateChange
          /\ last' = [NoOp EXCEPT
                        !.op = IF declined THEN "revertFailed" ELSE "syncNotesFailed",
                        !.file = TemplateFileAtRoot(templateName), !.pre = disk,
                        !.prevTemplate = PreviousFrontmatter(templateName),
                        !.known = templateName \in DOMAIN previousTemplateState,
                        !.template = disk[TemplateFileAtRoot(templateName)].fm,
                        !.writes = SubSeq(writes, 1, i - 1)]

\* vault.on("modify", ...): the syncNotesWithTemplate it awaits throws
OnModifySyncFails(file) ==
    /\ file \in modified
    /\ \E confirmed \in BOOLEAN : SyncNotesWithTemplateFails(Basename(file), confirmed)
    /\ UNCHANGED <<pending, recentFiles, tasks>>

codecVars == <<codec, diff, bind>>

NextIO ==
    \/ UserEdit /\ UNCHANGED <<settings, idx, pending, newVars, oldVars, ioVars>>
    \/ \E d \in Docs : HostIndex(d)
          /\ UNCHANGED <<settings, disk, modified, edits, origin, newVars, oldVars, ioVars>>
    \/ \E d \in Docs : OnMetadataChangedNote(d)
          /\ UNCHANGED <<settings, idx, modified, edits, origin, oldVars, ioVars>>
    \/ \E d \in Docs : OnMetadataChangedNoteFails(d)
          /\ UNCHANGED <<settings, idx, modified, edits, origin, oldVars, ioVars>>
    \/ \E d \in Docs : HandleTemplateMetadataChangeStart(d)
          /\ UNCHANGED <<settings, idx, modified, edits, origin, oldVars, codecVars>>
    \/ \E p \in propagations : SyncTemplateToNoteWrite(p)
          /\ UNCHANGED <<settings, idx, modified, edits, origin, oldVars, codecVars>>
    \/ \E p \in propagations : SyncTemplateToNoteFails(p)
          /\ UNCHANGED <<settings, idx, modified, edits, origin, oldVars, codecVars>>
    \/ \E d \in Docs : OnChangedDebounced(d)
          /\ UNCHANGED <<settings, idx, edits, origin, newVars, ioVars>>
    \/ \E d \in Docs : RecentExpire(d)
          /\ UNCHANGED <<settings, idx, edits, origin, notice, newVars, ioVars>>
    \/ \E t \in tasks : ApplyReadTemplate(t)
          /\ UNCHANGED <<settings, idx, edits, origin, notice, newVars, ioVars>>
    \/ \E t \in tasks : ApplyReadFile(t)
          /\ UNCHANGED <<settings, idx, edits, origin, notice, newVars, ioVars>>
    \/ \E t \in tasks : ApplyModify(t)
          /\ UNCHANGED <<settings, idx, edits, origin, notice, newVars, ioVars>>
    \/ \E t \in tasks : ApplyModifyFails(t)
          /\ UNCHANGED <<settings, idx, edits, origin, notice, newVars, ioVars>>
    \/ \E t \in tasks : ApplyFinally(t)
          /\ UNCHANGED <<settings, idx, edits, origin, notice, newVars, ioVars>>
    \/ \E d \in Docs : OnModifySync(d)
          /\ UNCHANGED <<settings, idx, edits, notice, newVars, ioVars>>
    \/ \E d \in Docs : OnModifySyncFails(d)
          /\ UNCHANGED <<settings, idx, edits, origin, notice, newVars, ioVars>>

\* The vaults of this specification: of the second revision the setting with
\* no template folder and with pruning, and a note n1 whose properties, if
\* any, are empty strings.
InitIO ==
    /\ Init
    /\ settings.variant = "part" =>
          (settings.templateFolderPath = "" /\ settings.deleteEmptyMetatagProperties)
    /\ \A i \in DOMAIN disk[NoteDoc].fm :
          disk[NoteDoc].fm[i].k = "tags" \/ disk[NoteDoc].fm[i].v = Str("")

SpecIO == InitIO /\ [][NextIO]_vars

(***************************************************************************)
(* The structured-block codec on its own.  A text is a sequence of tokens: *)
(* the marker "---", the line break, a key with its colon ("a:"), and      *)
(* words; a word holds no dash and no line break, so a search for "---"    *)
(* finds the marker tokens and nothing else.  The first revision parses    *)
(* with extractFrontmatter and writes with updateContentWithFrontmatter;   *)
(* the second parses with extractFrontmatter and writes with               *)
(* replaceFrontMatter.                                                     *)
(***************************************************************************)
Dash == "---"

NL == "\n"

KeyTokens == {"a:", "b:"}

\* the tokens from position i on (content.substring)
From(text, i) == SubSeq(text, i, Len(text))

\* content.indexOf(tok, from): the first position at or after `from`, 0 for -1
IndexOf(text, tok, from) ==
    LET found == {i \in from..Len(text) : text[i] = tok}
    IN IF found = {} THEN 0 ELSE CHOOSE i \in found : \A j \in found : i <= j

RECURSIVE TrimStart(_)
\* String.prototype.trimStart
TrimStart(text) ==
    IF text # <<>> /\ Head(text) = NL THEN TrimStart(Tail(text)) ELSE text

RECURSIVE TrimEnd(_)
TrimEnd(text) ==
    IF text # <<>> /\ text[Len(text)] = NL
    THEN TrimEnd(SubSeq(text, 1, Len(text) - 1)) ELSE text

\* String.prototype.trim
Trim(text) == TrimEnd(TrimStart(text))

\* /^---\n([\s\S]*?)\n---/: the position of the marker that ends the shortest
\* match, or 0 when the text does not match
MatchEnd(text) ==
    IF Len(text) >= 2 /\ text[1] = Dash /\ text[2] = NL
    THEN LET ends == {j \in 3..Len(text) - 1 : text[j] = NL /\ text[j + 1] = Dash}
         IN IF ends = {} THEN 0
            ELSE 1 + CHOOSE j \in ends : \A i \in ends : j <= i
    ELSE 0

\* match[1]
MatchGroup(text) == SubSeq(text, 3, MatchEnd(text) - 2)

RECURSIVE Lines(_)
\* the lines of a YAML source
Lines(src) ==
    IF IndexOf(src, NL, 1) = 0 THEN <<src>>
    ELSE <<SubSeq(src, 1, IndexOf(src, NL, 1) - 1)>>
            \o Lines(From(src, IndexOf(src, NL, 1) + 1))

\* a line `key: scalar` of a block mapping
IsPair(line) ==
    /\ line # <<>>
    /\ Head(line) \in KeyTokens
    /\ \A i \in 2..Len(line) : line[i] \notin KeyTokens \cup {"{}"}

\* the scalar of a line: nothing and `null` are the null value
Scalar(line) == IF Tail(line) = <<"null">> THEN <<>> ELSE Tail(line)

\* YAML.parse, under the try/catch of extractFrontmatter: a block mapping with
\* distinct keys or the flow mapping {}; anything else gives {}
YamlParse(src) ==
    LET lines == SelectSeq(Lines(src), LAMBDA l : l # <<>>)
        pairs == \A i \in DOMAIN lines : IsPair(lines[i])
        distinct == \A i, j \in DOMAIN lines : Head(lines[i]) = Head(lines[j]) => i = j
    IN IF pairs /\ distinct
       THEN [i \in DOMAIN lines |-> [k |-> Head(lines[i]), v |-> Scalar(lines[i])]]
       ELSE <<>>

RECURSIVE YamlDump(_)
\* one line `key: scalar` per entry, in the order of the entries
YamlDump(fields) ==
    IF fields = <<>> THEN <<>>
    ELSE <<Head(fields).k>>
            \o (IF Head(fields).v = <<>> THEN <<"null">> ELSE Head(fields).v)
            \o <<NL>> \o YamlDump(Tail(fields))

\* YAML.stringify / JSYAML.dump: {} for the empty map
YamlStringify(fields) == IF fields = <<>> THEN <<"{}", NL>> ELSE YamlDump(fields)

ExtractFrontmatter(content) ==
    IF MatchEnd(content) # 0 THEN YamlParse(MatchGroup(content)) ELSE <<>>

\* content.split(/^---\n[\s\S]*?\n---/).pop()?.trim() || ""
ExistingBody(content) ==
    IF MatchEnd(content) # 0 THEN Trim(From(content, MatchEnd(content) + 1))
    ELSE Trim(content)

UpdateContentWithFrontmatter(content, frontmatter) ==
    <<Dash, NL>> \o YamlStringify(frontmatter) \o <<Dash, NL>> \o <<NL>>
       \o ExistingBody(content)

\* replaceFrontMatter: restOfContent
RestOfContent(content) ==
    LET yamlStart == IndexOf(content, Dash, 1)
        yamlEnd == IF yamlStart = 0 THEN 0 ELSE IndexOf(content, Dash, yamlStart + 1)
    IN IF yamlStart # 0 /\ yamlEnd # 0
       THEN TrimStart(From(content, yamlEnd + 1))
       ELSE TrimStart(content)

ReplaceFrontMatter(content, newData) ==
    <<Dash, NL>> \o YamlStringify(newData) \o <<Dash, NL, NL>> \o RestOfContent(content)

\* the revision's parse and serialize
ParseFields(content) == ExtractFrontmatter(content)

ParseBody(content) ==
    IF settings.variant = "old" THEN ExistingBody(content) ELSE RestOfContent(content)

Serialize(content, fields) ==
    IF settings.variant = "old" THEN UpdateContentWithFrontmatter(content, fields)
    ELSE ReplaceFrontMatter(content, fields)

\* Well-formed texts: an optional block of lines `key: scalar` with distinct
\* keys between two marker lines, then a body.
Scalars == {<<>>, <<"null">>, <<"x">>, <<"x", Dash, "y">>}

PairLines == {<<k>> \o v \o <<NL>> : k \in KeyTokens, v \in Scalars}

Blocks ==
    {<<>>} \cup PairLines
       \cup {pq[1] \o pq[2] :
               pq \in {l \in PairLines \X PairLines : Head(l[1]) # Head(l[2])}}

Bodies ==
    {<<>>, <<"x">>, <<NL, "x", NL>>, <<"x", NL, Dash, NL, "y">>,
     <<"x", NL, Dash, NL, "y", NL, Dash, NL, "x">>}

WellFormedTexts ==
    Bodies \cup {<<Dash, NL>> \o b \o <<Dash, NL>> \o body : b \in Blocks, body \in Bodies}

\* the text is parsed
ParseText ==
    /\ codec.stage = "text"
    /\ codec' = [stage |-> "parsed", text |-> codec.text,
                 fields |-> ParseFields(codec.text), body |-> ParseBody(codec.text)]

\* the parsed fields are written back into the text
SerializeParsed ==
    /\ codec.stage = "parsed"
    /\ codec' = [stage |-> "written", text |-> codec.text, fields |-> codec.fields,
                 body |-> codec.body, out |-> Serialize(codec.text, codec.fields)]

\* the written text is parsed again
ParseAgain ==
    /\ codec.stage = "written"
    /\ codec' = [stage |-> "reparsed", text |-> codec.text, fields |-> codec.fields,
                 body |-> codec.body, out |-> codec.out,
                 fields2 |-> ParseFields(codec.out), body2 |-> ParseBody(codec.out)]

pluginVars == <<settings, disk, idx, unindexed, pending, fileTagCache, templateCache,
                previousTemplateState, suppressChange, suppressTemplateChange,
                recentFiles, tasks, modified, edits, last, origin, notice,
                propagations>>

NextCodec ==
    \/ ParseText /\ UNCHANGED <<pluginVars, diff, bind>>
    \/ SerializeParsed /\ UNCHANGED <<pluginVars, diff, bind>>
    \/ ParseAgain /\ UNCHANGED <<pluginVars, diff, bind>>

\* one vault, the first or the second revision, and any well-formed text
InitCodec ==
    /\ InitPlugin
    /\ settings.variant \in {"old", "part"}
    /\ settings.variant = "part" =>
          (settings.templateFolderPath = "" /\ settings.deleteEmptyMetatagProperties)
    /\ disk[TemplateDoc].fm = TemplateTags \o <<Entry("rating", Bool(FALSE))>>
    /\ disk[NoteDoc].fm = <<Entry("tags", List(<<"mt/Book">>)), Entry("rating", Str(""))>>
    /\ \E x \in WellFormedTexts : codec = [stage |-> "text", text |-> x]
    /\ diff = NoDiff
    /\ bind = NoBind

CodecSpec == InitCodec /\ [][NextCodec]_vars

(***************************************************************************)
(* The same parse and write on documents whose leading block is malformed: *)
(* a block that YAML.parse rejects, or a block that is never closed.       *)
(***************************************************************************)
\* sources YAML.parse throws on: a mapping inside a compact mapping, and a
\* key that occurs twice
RejectedBlocks ==
    {<<"a:", "b:", "x", NL>>,
     <<"a:", "x", NL, "a:", "y", NL>>,
     <<"a:", "x", NL, "b:", "a:", NL>>}

UnclosedBodies == {<<>>, <<"x">>, <<NL, "x", NL>>}

MalformedTexts ==
    {<<Dash, NL>> \o b \o <<Dash, NL>> \o body : b \in RejectedBlocks, body \in Bodies}
       \cup {<<Dash, NL, "a:", "x", NL>> \o body : body \in UnclosedBodies}

InitSoftFail ==
    /\ InitPlugin
    /\ settings.variant \in {"old", "part"}
    /\ settings.variant = "part" =>
          (settings.templateFolderPath = "" /\ settings.deleteEmptyMetatagProperties)
    /\ disk[TemplateDoc].fm = TemplateTags \o <<Entry("rating", Bool(FALSE))>>
    /\ disk[NoteDoc].fm = <<Entry("tags", List(<<"mt/Book">>)), Entry("rating", Str(""))>>
    /\ \E x \in MalformedTexts : codec = [stage |-> "text", text |-> x]
    /\ diff = NoDiff
    /\ bind = NoBind

SoftFailSpec == InitSoftFail /\ [][NextCodec]_vars

(***************************************************************************)
(* The property diff on its own: the added and removed lists of            *)
(* handleTemplateMetadataChange, and getDeletedProperties of the first     *)
(* revision, on any two property maps and any configured tag base.         *)
(***************************************************************************)
MaxDiffKeys == 3

DiffKeys == {"tags", "mt", "meta", "rating"}

\* settings.tagBase as the settings tab may set it
TagBases == {"mt", "meta"}

\* the property maps with at most MaxDiffKeys keys, in every key order
PropertyMaps ==
    {m \in UNION {[1..n -> {Entry(k, Null) : k \in DiffKeys}] : n \in 0..MaxDiffKeys} :
        \A i, j \in DOMAIN m : m[i].k = m[j].k => i = j}

\* the diff of the revision that runs; the first revision computes the
\* deleted properties only
ComputeDiff ==
    /\ diff.stage = "input"
    /\ diff' = [stage |-> "done", tagBase |-> diff.tagBase,
                prev |-> diff.prev, curr |-> diff.curr,
                added |-> IF settings.variant = "old" THEN <<>>
                          ELSE AddedProps(diff.prev, diff.curr),
                removed |-> IF settings.variant = "old"
                            THEN GetDeletedProperties(diff.prev, diff.curr)
                            ELSE RemovedProps(diff.prev, diff.curr)]

NextDiff == ComputeDiff /\ UNCHANGED <<pluginVars, codec, bind>>

InitDiff ==
    /\ InitPlugin
    /\ settings.templateFolderPath = "" /\ ~settings.deleteEmptyMetatagProperties
    /\ disk[TemplateDoc].fm = TemplateTags \o <<Entry("rating", Bool(FALSE))>>
    /\ disk[NoteDoc].fm = <<Entry("tags", List(<<"mt/Book">>)), Entry("rating", Str(""))>>
    /\ codec = NoCodec
    /\ \E b \in TagBases, prev \in PropertyMaps, curr \in PropertyMaps :
          diff = [stage |-> "input", tagBase |-> b, prev |-> prev, curr |-> curr]
    /\ bind = NoBind

DiffSpec == InitDiff /\ [][NextDiff]_vars

(***************************************************************************)
(* The second revision and main.ts on vaults whose note n1 carries the     *)
(* bare base tag, a reference, both or neither, in its block or in its     *)
(* body: the classification made by onMetadataChanged.                     *)
(***************************************************************************)
ClassifyNotes ==
    {[fm |-> t, inline |-> i] :
        t \in {<<>>, <<Entry("tags", List(<<"mt/Book">>))>>,
               <<Entry("tags", List(<<tagBase>>))>>,
               <<Entry("tags", List(<<tagBase, "mt/Book">>))>>},
        i \in {<<>>, <<tagBase>>, <<"mt/Book">>}}

InitClassify ==
    /\ settings \in {st \in InitSettings : st.variant # "old"}
    /\ \E n1 \in ClassifyNotes :
          disk = [d \in Docs |->
                     CASE d = "Book" -> [fm |-> TemplateTags \o <<Entry("rating", Bool(FALSE))>>,
                                         inline |-> <<>>]
                       [] d = "Film" -> [fm |-> TemplateTags \o
                                            <<Entry("author", Null), Entry("rating", Str("5"))>>,
                                         inline |-> <<>>]
                       [] d = "n1" -> n1
                       [] d = "n2" -> [fm |-> <<Entry("rating", Null)>>,
                                       inline |-> <<"mt/Book">>]]
    /\ InitHost
    /\ InitCaches
    /\ codec = NoCodec
    /\ diff = NoDiff
    /\ bind = NoBind

NextClassify ==
    \/ UserEdit /\ UNCHANGED <<settings, idx, pending, newVars, oldVars, ioVars>>
    \/ \E d \in Docs : HostIndex(d)
          /\ UNCHANGED <<settings, disk, modified, edits, origin, newVars, oldVars, ioVars>>
    \/ \E d \in Docs : OnMetadataChanged(d)
          /\ UNCHANGED <<settings, idx, modified, edits, origin, oldVars, ioVars>>

ClassifySpec == InitClassify /\ [][NextClassify]_vars

(***************************************************************************)
(* Bindings on their own, in the second revision and main.ts: the file     *)
(* getTemplateFileByName finds for the name a tag carries, and the         *)
(* documents handleTemplateMetadataChange selects for a template file.     *)
(* A path is the sequence of its segments, without the extension; a tag    *)
(* `a/b/c` is the sequence of its parts.                                   *)
(***************************************************************************)
MaxTemplateFiles == 2

\* the places a file named Book may have in the vault
BookPaths == {<<"Book">>, <<"mt", "Book">>, <<"mt", "sub", "Book">>, <<"notes", "Book">>}

\* the references a document may carry
RefTags == {<<"mt", "Book">>, <<"mt", "sub", "Book">>, <<"mt", "Film">>}

\* vault.getMarkdownFiles(): the files named Book, in scan order, each with
\* or without the base tag among its block-declared tags
BookFiles ==
    {fs \in UNION {[1..n -> [path : BookPaths, tagged : BOOLEAN]] : n \in 1..MaxTemplateFiles} :
        \A i, j \in DOMAIN fs : fs[i].path = fs[j].path => i = j}

\* file.basename
BaseOf(path) == path[Len(path)]

\* the configured template location
TemplateFolder ==
    IF settings.variant = "main" THEN tagBase ELSE settings.templateFolderPath

\* isTemplateFile: file.parent.path === templatesFolder.path in main.ts,
\* file.path.startsWith(templateFolder.path) or the base tag in the second
\* revision
IsTemplatePath(f) ==
    IF settings.variant = "main"
    THEN Len(f.path) = 2 /\ f.path[1] = tagBase
    ELSE IF TemplateFolder # ""
         THEN Len(f.path) >= 2 /\ f.path[1] = TemplateFolder
         ELSE f.tagged

\* tag.replace(`${tagBase}/`, "")
NameOfTag(tag) == Tail(tag)

\* getTemplateFileByName: the file at `${folder}/${name}.md`, or without a
\* folder the first file in scan order with that basename and the base tag
TemplateFileByName(files, name) ==
    LET atPath == {i \in DOMAIN files : files[i].path = <<TemplateFolder>> \o name}
        named == {i \in DOMAIN files : <<BaseOf(files[i].path)>> = name /\ files[i].tagged}
    IN IF TemplateFolder # ""
       THEN (IF atPath = {} THEN <<>> ELSE files[CHOOSE i \in atPath : TRUE].path)
       ELSE (IF named = {} THEN <<>>
             ELSE files[CHOOSE i \in named : \A j \in named : i <= j].path)

\* handleTemplateMetadataChange: tags.includes(`${tagBase}/${metaTagName}`)
SelectsTag(f, tag) == tag = <<tagBase, BaseOf(f.path)>>

\* the reference is resolved as apply resolves it, and every template file
\* selects as its propagation selects
BindReference ==
    /\ bind.stage = "input"
    /\ bind' = [stage |-> "done", files |-> bind.files, tag |-> bind.tag,
                resolved |-> TemplateFileByName(bind.files, NameOfTag(bind.tag)),
                templates |-> {bind.files[i].path : i \in
                                  {j \in DOMAIN bind.files : IsTemplatePath(bind.files[j])}},
                selecting |-> {bind.files[i].path : i \in
                                  {j \in DOMAIN bind.files :
                                      /\ IsTemplatePath(bind.files[j])
                                      /\ SelectsTag(bind.files[j], bind.tag)}}]

NextBind == BindReference /\ UNCHANGED <<pluginVars, codec, diff>>

InitBind ==
    /\ InitPlugin
    /\ settings.variant # "old"
    /\ ~settings.deleteEmptyMetatagProperties
    /\ disk[TemplateDoc].fm = TemplateTags \o <<Entry("rating", Bool(FALSE))>>
    /\ disk[NoteDoc].fm = <<Entry("tags", List(<<"mt/Book">>)), Entry("rating", Str(""))>>
    /\ codec = NoCodec
    /\ diff = NoDiff
    /\ \E fs \in BookFiles, t \in RefTags :
          bind = [stage |-> "input", files |-> fs, tag |-> t]

BindSpec == InitBind /\ [][NextBind]_vars

(***************************************************************************)
(* The second revision and main.ts on vaults whose owner declares          *)
(* references in the body of a document as well: getAllTags reads the      *)
(* inline tags of the host's cache next to the block-declared ones.        *)
(***************************************************************************)
\* The owner writes the tag t into the body of document d.
UserAddInlineTag(d, t) ==
    /\ t \notin SeqToSet(disk[d].inline)
    /\ edits < MaxEdits
    /\ edits' = edits + 1
    /\ disk' = [disk EXCEPT ![d].inline = Append(@, t)]
    /\ unindexed' = unindexed \cup {d}
    /\ modified' = modified \cup OnModify({d})
    /\ last' = NoOp
    /\ origin' = origin
    /\ notice' = [notice EXCEPT
                    !.byOwner = @ \cup {d},
                    !.gained = @ \cup
                       {<<d, n>> : n \in SeqToSet(MetaTagNames(<<t>>))
                                          \ SeqToSet(MetaTagNames(GetAllTags(disk[d])))}]

\* n1 without tags, with or without properties of its own
InlineNotes ==
    {[fm |-> p, inline |-> <<>>] :
        p \in {<<>>, <<Entry("rating", Str("9"))>>, <<Entry("author", Null)>>}}

InitInline ==
    /\ settings \in {st \in InitSettings : st.variant # "old"}
    /\ \E n1 \in InlineNotes :
          disk = [d \in Docs |->
                     CASE d = "Book" -> [fm |-> TemplateTags \o <<Entry("rating", Bool(FALSE))>>,
                                         inline |-> <<>>]
                       [] d = "Film" -> [fm |-> TemplateTags \o
                                            <<Entry("author", Null), Entry("rating", Str("5"))>>,
                                         inline |-> <<>>]
                       [] d = "n1" -> n1
                       [] d = "n2" -> [fm |-> <<Entry("rating", Null)>>,
                                       inline |-> <<"mt/Book">>]]
    /\ InitHost
    /\ InitCaches
    /\ codec = NoCodec
    /\ diff = NoDiff
    /\ bind = NoBind

NextInline ==
    \/ \E t \in EditTags : UserAddInlineTag(NoteDoc, t)
          /\ UNCHANGED <<settings, idx, pending, newVars, oldVars, ioVars>>
    \/ UserEdit /\ UNCHANGED <<settings, idx, pending, newVars, oldVars, ioVars>>
    \/ \E d \in Docs : HostIndex(d)
          /\ UNCHANGED <<settings, disk, modified, edits, origin, newVars, oldVars, ioVars>>
    \/ \E d \in Docs : OnMetadataChanged(d)
          /\ UNCHANGED <<settings, idx, modified, edits, origin, oldVars, ioVars>>

InlineSpec == InitInline /\ [][NextInline]_vars

(***************************************************************************)
(* Properties.  `last` describes the operation that has just ended: the    *)
(* vault before it (pre), what it read, and the writes it made.            *)
(***************************************************************************)
\* the template names of the tags a pass of onMetadataChanged found added
LastAddedNames ==
    MetaTagNames(GetAddedTags(last.prevTags, GetAllTags(idx[last.file])))

\* the template names of the tags a pass of onMetadataChanged found removed
LastRemovedNames ==
    MetaTagNames(GetRemovedTags(last.prevTags, GetAllTags(idx[last.file])))

\* the names among `names` that resolve to a template file, in order
ResolvedNames(names) == SelectSeq(names, LAMBDA n : GetTemplateFileByName(n) # NoFile)

\* the fields of the template that `name` resolves to, as apply reads them
TemplateData(name) == idx[GetTemplateFileByName(name)].fm

\* the writes of the given kind among those of the last operation
LastWrites(kind) == SelectSeq(last.writes, LAMBDA w : w.kind = kind)

\* C1: apply-template-to-document keeps the document's value v of every key k
\* that a referenced template defines with another value w.  The document's
\* fields are those the operation read as the document's.
C1_Precedence ==
    /\ last.op = "note" =>
          \A w \in SeqToSet(LastWrites("apply")) :
             \A k \in KeysOf(idx[last.file].fm),
                n \in SeqToSet(ResolvedNames(LastAddedNames)) :
                (Has(TemplateData(n), k)
                    /\ Get(TemplateData(n), k) # Get(idx[last.file].fm, k))
                => (Has(w.fm, k) /\ Get(w.fm, k) = Get(idx[last.file].fm, k))
    /\ last.op = "applied" =>
          \A w \in SeqToSet(last.writes) :
             \A k \in KeysOf(last.existing) :
                (Has(last.template, k) /\ Get(last.template, k) # Get(last.existing, k))
                => (Has(w.fm, k) /\ Get(w.fm, k) = Get(last.existing, k))

\* the properties a propagation of the second revision or of main.ts found dropped
LastRemovedProps ==
    SeqToSet(RemovedProps(last.prevTemplate, idx[last.file].fm))

\* the documents a propagation of the second revision or of main.ts takes as bound
LastBound ==
    {d \in Docs : HasRefTag(GetAllTags(idx[d]), Basename(last.file))}

\* C2: when a template drops property p and the change is propagated, a bound
\* document that had p still has p with the same value if and only if its
\* value for p was neither null nor the empty string.
C2_NonDestructivePropagation ==
    /\ last.op = "template" =>
          \A p \in LastRemovedProps, d \in LastBound :
             Has(idx[d].fm, p) =>
                ((Has(disk[d].fm, p) /\ Get(disk[d].fm, p) = Get(idx[d].fm, p))
                    <=> ~IsEmptyValue(Get(idx[d].fm, p)))
    /\ last.op = "synced" =>
          \A p \in KeysOf(last.prevTemplate) \ KeysOf(last.template),
             d \in SeqToSet(NotesWithMetaTag(Basename(last.file))) :
             Has(last.pre[d].fm, p) =>
                ((Has(disk[d].fm, p) /\ Get(disk[d].fm, p) = Get(last.pre[d].fm, p))
                    <=> ~IsEmptyValue(Get(last.pre[d].fm, p)))

\* the properties a propagation of the second revision or of main.ts found added
LastAddedProps ==
    SeqToSet(AddedProps(last.prevTemplate, idx[last.file].fm))

\* C3: when a template gains property p with value d and the change is
\* propagated, every bound document that lacks p gains p = d and every bound
\* document that has p keeps its own value.  The documents are those the
\* propagation takes as bound and whose text carries the reference; a
\* document has or lacks p by its text at the time of the propagation.
C3_AdditivePropagation ==
    last.op = "template" =>
       \A p \in LastAddedProps, d \in LastBound :
          HasRefTag(GetAllTags(last.pre[d]), Basename(last.file)) =>
             /\ Has(disk[d].fm, p)
             /\ Get(disk[d].fm, p) =
                   IF Has(last.pre[d].fm, p) THEN Get(last.pre[d].fm, p)
                   ELSE Get(idx[last.file].fm, p)

\* C4: applying the same templates to the fields that an apply has produced
\* yields those fields again.
C4_ApplyIdempotent ==
    /\ last.op = "note" =>
          \A w \in SeqToSet(LastWrites("apply")) :
             MergedData(MergedTemplateData(<<>>, LastAddedNames), w.fm) = w.fm
    /\ last.op = "applied" =>
          \A w \in SeqToSet(last.writes) :
             MergeFrontmatter(w.fm, last.template) = w.fm

\* an apply of a resolvable template has changed the fields of the document
C4_Witness ==
    /\ last.op = "note"
    /\ ResolvedNames(LastAddedNames) # <<>>
    /\ \E w \in SeqToSet(LastWrites("apply")) : w.fm # idx[last.file].fm

\* C5: apply-template-to-document writes the document only if the merged
\* property map differs from the property map it read.
C5_NoOpWriteSkipped ==
    /\ last.op = "note" =>
          \A w \in SeqToSet(LastWrites("apply")) : w.fm # idx[last.file].fm
    /\ last.op = "applied" =>
          \A w \in SeqToSet(last.writes) : w.fm # last.existing

\* C6: a key the document lacks gets the value of the first resolvable
\* template, in the order of the references, that defines it.
C6_FirstReferenceWins ==
    last.op = "note" =>
       LET names == ResolvedNames(LastAddedNames)
       IN \A w \in SeqToSet(LastWrites("apply")) :
             \A i \in DOMAIN names :
                \A k \in KeysOf(TemplateData(names[i])) :
                   (/\ ~Has(idx[last.file].fm, k)
                    /\ \A j \in 1..(i - 1) : ~Has(TemplateData(names[j]), k))
                   => Get(w.fm, k) = Get(TemplateData(names[i]), k)

\* C7: when a document drops the reference base/name and pruning is enabled,
\* the keys removeEmptyTemplateProperties deletes are exactly the keys of the
\* template whose value in the document is null or the empty string.
C7_PruneExactlyEmpty ==
    (/\ last.op = "note"
     /\ Len(LastRemovedNames) = 1
     /\ LastAddedNames = <<>>) =>
       \A w \in SeqToSet(LastWrites("prune")) :
          LET noteData == idx[last.file].fm
              templateData == disk[GetTemplateFileByName(LastRemovedNames[1])].fm
          IN KeysOf(noteData) \ KeysOf(w.fm) =
                {k \in KeysOf(noteData) :
                    Has(templateData, k) /\ IsEmptyValue(Get(noteData, k))}

\* C8: with the pruning setting off, a pass in which the document dropped a
\* reference makes no write for the dropped reference, and none at all when
\* no reference was added in the same pass: the document stays as it was.
C8_PruningOptional ==
    (/\ last.op = "note"
     /\ ~settings.deleteEmptyMetatagProperties
     /\ LastRemovedNames # <<>>) =>
       /\ LastWrites("prune") = <<>>
       /\ LastAddedNames = <<>> => (last.writes = <<>> /\ disk = last.pre)

\* with the setting off, a document dropped its reference to a resolvable
\* template while holding an empty value for one of the template's keys
C8_Witness ==
    /\ last.op = "note"
    /\ ~settings.deleteEmptyMetatagProperties
    /\ LastAddedNames = <<>>
    /\ \E n \in SeqToSet(ResolvedNames(LastRemovedNames)) :
          \E k \in KeysOf(disk[last.file].fm) \ ignoreProps :
             /\ Has(disk[GetTemplateFileByName(n)].fm, k)
             /\ IsEmptyValue(Get(disk[last.file].fm, k))

\* C9: when a document gains references none of which resolves, its fields
\* are the same after the pass as before it; and no apply is started for a
\* name without a template file.
C9_UnresolvedInert ==
    /\ (/\ last.op = "note"
        /\ LastAddedNames # <<>>
        /\ ResolvedNames(LastAddedNames) = <<>>
        /\ LastRemovedNames = <<>>)
       => disk[last.file].fm = last.pre[last.file].fm
    /\ \A t \in tasks : TemplateFileAtRoot(t.templateName) # NoFile

\* C10: a declined confirmation writes no document but the template and
\* leaves the template's entry of previousTemplateState as it was.
C10_DeclinedLeavesReplicasAndSnapshot ==
    last.op = "declined" =>
       /\ \A d \in Docs \ {last.file} : disk[d] = last.pre[d]
       /\ (Basename(last.file) \in DOMAIN previousTemplateState) = last.known
       /\ PreviousFrontmatter(Basename(last.file)) = last.prevTemplate

\* a confirmation was declined while a bound document held an empty value
\* for a property the template had dropped
C10_Witness ==
    /\ last.op = "declined"
    /\ \E d \in SeqToSet(NotesWithMetaTag(Basename(last.file))) :
          \E p \in KeysOf(last.prevTemplate) \ KeysOf(last.template) :
             Has(disk[d].fm, p) /\ IsFalsy(Get(disk[d].fm, p))

\* no notification is waiting and no engine operation is in flight
Quiescent ==
    /\ unindexed = {}
    /\ pending = NoFile
    /\ tasks = {}
    /\ modified = {}

\* C11: a declined confirmation rewrites the template so that its fields are
\* the snapshot and its body is as it was; and once every notification has
\* been processed, the reverted template and every document bound to it are
\* as they were before the owner's edit.
C11_DeclinedRevertRestores ==
    /\ last.op = "declined" =>
          /\ disk[last.file].fm = last.prevTemplate
          /\ disk[last.file].inline = last.pre[last.file].inline
    /\ Quiescent =>
          \A f \in origin.declined :
             \A d \in {f} \cup SeqToSet(NotesWithMetaTag(Basename(f))) :
                disk[d] = origin.before[d]

\* C12: no bound document loses a property because of a template change
\* unless the confirmation for that change was obtained before the first
\* such write.  The second revision and main.ts ask for no confirmation, so
\* none of their propagation writes may drop a key of the fields it read; in
\* the first revision a propagation that drops a key is one for which
\* window.confirm was asked, and it returned true.
C12_ConfirmationPrecedesLoss ==
    /\ last.op = "template" =>
          \A w \in SeqToSet(last.writes) :
             KeysOf(idx[w.file].fm) \subseteq KeysOf(w.fm)
    /\ last.op = "synced" =>
          \A w \in SeqToSet(last.writes) :
             KeysOf(last.pre[w.file].fm) \subseteq KeysOf(w.fm)
                \/ GetDeletedProperties(last.prevTemplate, last.template) # <<>>

\* C13: while a propagation still has a bound document waiting for its write,
\* the template's entry of templateCache is the property map it held when the
\* propagation began.
C13_SnapshotCommittedLast ==
    \A p \in propagations :
       /\ (p.file \in DOMAIN templateCache) = p.known
       /\ p.known => templateCache[p.file] = p.prev

\* C14: when a host write fails during an apply or during a propagation, the
\* tag cache entry of the document and the snapshot of the template are what
\* they were when the operation began.
C14_WriteFailureKeepsBaseline ==
    /\ last.op = "noteFailed" => fileTagCache[last.file] = last.prevTags
    /\ last.op = "syncFailed" =>
          /\ (last.file \in DOMAIN templateCache) = last.known
          /\ last.known => templateCache[last.file] = last.prevTemplate
    /\ last.op \in {"syncNotesFailed", "revertFailed"} =>
          /\ (Basename(last.file) \in DOMAIN previousTemplateState) = last.known
          /\ PreviousFrontmatter(Basename(last.file)) = last.prevTemplate

\* C15: processing the notification that the host delivers for the engine's
\* own completed write to a document makes no further write.
C15_OwnWritesDoNotRetrigger ==
    (last.own /\ last.op \in {"note", "template", "applied"}) => last.writes = <<>>

\* the template file a reference name resolves to, or NoFile
Resolve(name) ==
    IF settings.variant = "old" THEN TemplateFileAtRoot(name)
    ELSE GetTemplateFileByName(name)

\* the document holds every property of the template the name resolves to:
\* its fields are the template's defaults overlaid by its own values
Converged(d, name) ==
    Resolve(name) # NoFile =>
       \A k \in KeysOf(disk[Resolve(name)].fm) \ ignoreProps : Has(disk[d].fm, k)

\* C16: a document that has gained a reference to a resolvable template
\* reaches, once the owner's edits have stopped, a state in which it stays:
\* its fields are the template defaults overlaid by its own values, and no
\* notification or engine write is waiting.
C16_Convergence ==
    <>[](notice.gained # {} =>
            (Quiescent /\ \A g \in notice.gained : Converged(g[1], g[2])))

\* C17: a suppression flag is set only while the operation that set it is in
\* flight.  suppressChange is set by an applyMetadataTemplate call that waits
\* for its vault.modify or has its finally block still to run, and within
\* syncNotesWithTemplate, which no state shows half-way; suppressTemplateChange
\* is set and cleared within syncNotesWithTemplate; suppressAddition is set
\* and cleared with no await between, since no markdown view is active.
C17_GuardsReleased ==
    /\ suppressChange => \E t \in tasks : t.stage \in {"modify", "finally"}
    /\ ~suppressTemplateChange

\* C18: a document whose notification waits in the quiescence window leaves
\* it only by being processed; a notification for another document never
\* takes its place.
C18_CoalescingPerDocument ==
    [][pending # NoFile => pending' \in {pending, NoFile}]_vars

\* C19: no two processing passes for one document are in flight together.
\* Two handleTemplateMetadataChange calls for one template are two passes;
\* one pass of the first revision starts at most one applyMetadataTemplate
\* call per template name for its document, so two such calls for one
\* document and one name belong to two passes.
C19_OnePassPerDocument ==
    /\ \A p, q \in propagations : p.file = q.file => p = q
    /\ \A t, u \in tasks :
          (t.file = u.file /\ t.templateName = u.templateName) => t = u

\* C20: for a well-formed text, parsing it, writing the parsed fields back
\* and parsing the written text gives the fields of the first parse, in the
\* same key order, and the body of the first parse.
C20_CodecRoundTrip ==
    codec.stage = "reparsed" =>
       (codec.fields2 = codec.fields /\ codec.body2 = codec.body)

\* the position of the marker line that closes the leading block of a text
\* that starts with a marker line, 0 when there is none
BlockEnd(text) ==
    IF Len(text) >= 2 /\ text[1] = Dash /\ text[2] = NL
    THEN LET ends == {j \in 3..Len(text) :
                         /\ text[j] = Dash /\ text[j - 1] = NL
                         /\ (j = Len(text) \/ text[j + 1] = NL)}
         IN IF ends = {} THEN 0 ELSE CHOOSE j \in ends : \A i \in ends : j <= i
    ELSE 0

\* the body of a document: the text after its leading block, the whole text
\* when it does not start with a block
DocBody(text) ==
    IF BlockEnd(text) = 0 THEN text ELSE From(text, BlockEnd(text) + 1)

\* C21: the text an engine write produces has the body of the text it read,
\* apart from blank lines at its start (and, as trim() of the first revision
\* removes them, at its end).
C21_BodyPreserved ==
    codec.stage \in {"written", "reparsed"} =>
       Trim(DocBody(codec.out)) = Trim(DocBody(codec.text))

\* the template location of the revision: the configured folder, which in
\* main.ts is the folder named by the tag base; "" when none is configured
TemplateLocation ==
    IF settings.variant = "main" THEN tagBase ELSE settings.templateFolderPath

\* C22: a document is classified as a template exactly when a template
\* location is configured and the document lies in it, or none is configured
\* and the document's tags, inline or declared in the block, hold the bare
\* base tag.
C22_TemplateClassification ==
    last.op \in {"template", "note"} =>
       ((last.op = "template") <=>
           IF TemplateLocation # ""
           THEN ParentPath(last.file) = TemplateLocation
           ELSE tagBase \in SeqToSet(GetAllTags(idx[last.file])))

\* C23: a pass handles its document as a template or as a referencing
\* document, never as both.  A pass of onMetadataChanged that propagated
\* wrote bound documents only, and one that applied or pruned wrote its own
\* document only; in the first revision no document waits for
\* syncNotesWithTemplate (the template's part) while an applyMetadataTemplate
\* call (the referencing document's part) is in flight for it.
C23_TemplateXorDocument ==
    /\ last.op = "template" =>
          \A w \in SeqToSet(last.writes) : w.kind = "sync" /\ w.file # last.file
    /\ last.op = "note" =>
          \A w \in SeqToSet(last.writes) : w.kind # "sync" /\ w.file = last.file
    /\ \A t \in tasks : t.file \notin modified

\* the reserved keys: the tag-carrying key and the key named by the
\* configured base tag
ReservedKeys == {"tags", diff.tagBase}

\* C24: the added list is the keys of the new map that the old map lacks,
\* the removed list is the keys of the old map that the new map lacks, both
\* without the reserved keys; the two lists are disjoint.  The first
\* revision computes the removed list only.
C24_PropertyDiff ==
    diff.stage = "done" =>
       /\ SeqToSet(diff.removed) =
             (KeysOf(diff.prev) \ KeysOf(diff.curr)) \ ReservedKeys
       /\ settings.variant # "old" =>
             SeqToSet(diff.added) =
                (KeysOf(diff.curr) \ KeysOf(diff.prev)) \ ReservedKeys
       /\ SeqToSet(diff.added) \cap SeqToSet(diff.removed) = {}

\* C25: when onMetadataChanged has processed a notification for a document,
\* whether it took the document for a template or for a note, the tag cache
\* holds for that document the tags the pass read from the metadata cache.
C25_TagCacheFollowsProcessing ==
    last.op \in {"template", "note"} =>
       fileTagCache[last.file] = GetAllTags(idx[last.file])

\* the window of d has expired: a pass of d is still in flight, so the
\* debounced handler has put d into recentFiles, and d is no longer in it
WindowExpired(d) == d \notin recentFiles /\ \E t \in tasks : t.file = d

\* C26: the debounced handler starts no pass for a path that is in
\* recentFiles; every path in recentFiles is eventually removed from it; and
\* a notification for a document whose window has expired starts a pass for
\* it (the handler puts the document into recentFiles again).
C26_RecentlyProcessedWindow ==
    /\ [][(pending # NoFile /\ pending \in recentFiles /\ pending' = NoFile) =>
            /\ {t \in tasks' \ tasks : t.stage = "readTemplate"} = {}
            /\ recentFiles' = recentFiles]_vars
    /\ \A d \in Docs : []<>(d \notin recentFiles)
    /\ [][(pending # NoFile /\ WindowExpired(pending) /\ pending' # pending) =>
            pending \in recentFiles']_vars

\* C27: a document whose leading block is malformed parses to the empty map
\* with the whole text as its body, and the text written next holds the
\* whole former text, the malformed block included, after the engine's block.
C27_ParseFailsSoft ==
    /\ codec.stage \in {"parsed", "written", "reparsed"} =>
          /\ codec.fields = <<>>
          /\ Trim(codec.body) = Trim(codec.text)
    /\ codec.stage \in {"written", "reparsed"} =>
          Trim(DocBody(codec.out)) = Trim(codec.text)

\* C28: a propagation of template T writes only documents that hold the
\* reference to T in the vault when the propagation starts; T itself and
\* every other document without the reference are not written.
C28_FanOutExact ==
    last.op \in {"template", "synced"} =>
       \A w \in SeqToSet(last.writes) :
          HasRefTag(GetAllTags(last.pre[w.file]), Basename(last.file))

\* the keys in the added and removed lists of the diff of the last propagation
LastDelta ==
    IF last.op = "template" THEN LastAddedProps \cup LastRemovedProps
    ELSE (KeysOf(last.template) \ KeysOf(last.prevTemplate))
            \cup (KeysOf(last.prevTemplate) \ KeysOf(last.template))

\* the fields fm and gm agree on key k: both lack it or both map it to the
\* same value
SameAt(fm, gm, k) ==
    /\ Has(fm, k) <=> Has(gm, k)
    /\ Has(fm, k) => Get(fm, k) = Get(gm, k)

\* C29: a propagation changes, in a document it writes, no key outside the
\* added and removed lists of its diff; so a property the template already
\* had and the owner deleted from the document is not put back.
C29_OnlyTheDelta ==
    last.op \in {"template", "synced"} =>
       \A w \in SeqToSet(last.writes) :
          \A k \in (KeysOf(last.pre[w.file].fm) \cup KeysOf(w.fm)) \ LastDelta :
             SameAt(last.pre[w.file].fm, w.fm, k)

\* the keys of document d whose value the owner has set and the host has not
\* indexed yet
OwnerSet(d, text) ==
    IF d \in notice.byOwner
    THEN {k \in KeysOf(text) : ~SameAt(idx[d].fm, text, k)}
    ELSE {}

\* C30: when the engine writes a document that holds an edit of its owner the
\* host has not indexed yet, the written document holds the owner's value for
\* every key the owner has set.
C30_NoClobberingThroughStaleIndex ==
    last.op \in {"template", "note"} =>
       \A w \in SeqToSet(last.writes) :
          \A k \in OwnerSet(w.file, last.pre[w.file].fm) :
             Has(w.fm, k) /\ Get(w.fm, k) = Get(last.pre[w.file].fm, k)

\* every applyMetadataTemplate call for document d has made its write or
\* returned
ApplyCallsDone(d) ==
    \A t \in tasks : t.file = d => t.stage = "finally"

\* C31: when the applyMetadataTemplate calls that handleTagChange started for
\* a document have all completed, the last of them with a write, the document
\* holds every property of every template it references.
C31_NoLostUpdateBetweenTemplates ==
    (last.op = "applied" /\ ApplyCallsDone(last.file)) =>
       \A n \in SeqToSet(MatchingTemplateNames(last.pre[last.file].fm)) :
          TemplateFileAtRoot(n) # NoFile =>
             \A k \in KeysOf(disk[TemplateFileAtRoot(n)].fm) :
                Has(disk[last.file].fm, k)

\* the write just made belongs to a run of handleTemplateMetadataChange that
\* started from the snapshot an earlier run of the same template left, and
\* that earlier run is still writing bound documents
OverlapsEarlierRun ==
    /\ last.op = "syncWrite"
    /\ \E q \in propagations :
          q.file = last.file /\ q.curr = last.prevTemplate /\ q.prev # q.curr

\* C32: a run of handleTemplateMetadataChange that overlaps an earlier run of
\* the same template takes from a bound document no property the document
\* holds when the run writes it, except the properties of its own removed
\* list; so it does not write back the document's state from before the
\* earlier run's write.
C32_OverlappingPropagations ==
    OverlapsEarlierRun =>
       \A w \in SeqToSet(last.writes) :
          \A k \in KeysOf(last.pre[w.file].fm) :
             \/ Has(w.fm, k)
             \/ k \in SeqToSet(RemovedProps(last.prevTemplate, templateCache[last.file]))

\* the tags of document d once the block fm has been written to it
TagsWith(d, fm) == SeqToSet(GetAllTags([last.pre[d] EXCEPT !.fm = fm]))

\* C33: a document that applyTemplateMetadata has written carries the bare
\* base tag only if it carried it before the write.
C33_ApplyMakesNoTemplate ==
    last.op = "note" =>
       \A w \in SeqToSet(LastWrites("apply")) :
          tagBase \in TagsWith(w.file, w.fm) =>
             tagBase \in SeqToSet(GetAllTags(last.pre[w.file]))

\* C34: for every template file T, the reference of a document resolves to
\* T in apply exactly when the propagation of T selects the document.
C34_ApplyAndPropagateAgree ==
    bind.stage = "done" =>
       \A T \in bind.templates : (bind.resolved = T) <=> (T \in bind.selecting)

\* C35: the suppression flag covers every write in flight: in every state in
\* which the vault.modify of an applyMetadataTemplate call has been issued and
\* has not completed, suppressChange is true; the finally block of one call
\* does not clear the flag while the write of another call is in flight.
C35_FlagCoversWritesInFlight ==
    (\E t \in tasks : t.stage = "modify") => suppressChange

====
